---- MODULE Spec2Model ----
(***************************************************************************)
(* A model of OpenAPIBackend (src/src/backend.ts): the handler registry,   *)
(* lazy initialization, the handleRequest dispatch pipeline and            *)
(* mockResponseForOperation.                                               *)
(*                                                                         *)
(* JavaScript runs one callback at a time, so every action below is one    *)
(* run-to-completion block of the code: from a call or the resumption of   *)
(* an await to the next await, return or throw.  Several API calls can be  *)
(* in flight at once, one per caller of Callers.                           *)
(***************************************************************************)
EXTENDS Integers, Sequences, FiniteSets, TLC

\* Bound of the model: the number of register / registerHandler calls made
\* in one behaviour.
MaxRegistrations == 1

\* The callers of init() and handleRequest(); each makes one call, c1 the
\* first of them.
Callers == {"c1", "c2"}

(***************************************************************************)
(* JavaScript values.  Every value is a record of one shape so that any    *)
(* two can be compared.                                                    *)
(***************************************************************************)
Undefined == [type |-> "undefined", name |-> ""]
Null == [type |-> "null", name |-> ""]
NotAFunction == [type |-> "string", name |-> "notAFunction"]
Fn(n) == [type |-> "function", name |-> n]

\* typeof v === 'function'
IsFunction(v) == v.type = "function"

\* The truthiness of v, as `if (v)` and `a || b` read it.
Truthy(v) == v.type \in {"function", "string", "object"}

\* What the user's function fn returns when called: a value of its own.
ResultOf(fn) == [type |-> "result", name |-> fn.name]

NoError == [type |-> "none", message |-> <<>>]
Error(msg) == [type |-> "Error", message |-> msg]
TypeError(msg) == [type |-> "TypeError", message |-> msg]

(***************************************************************************)
(* The contract document and the requests.  The declared operations are    *)
(* GET /a (operationId opA) and GET /b (operationId opB).                  *)
(***************************************************************************)
OperationIds == {"opA", "opB"}
NoOperationId == ""
NoPath == ""

NoOperation == [defined |-> FALSE, operationId |-> NoOperationId, path |-> NoPath, method |-> ""]
Operation(id, path, method) == [defined |-> TRUE, operationId |-> id, path |-> path, method |-> method]

Operations == {Operation("opA", "/a", "GET"), Operation("opB", "/b", "GET")}

\* A request: method, path and whether it satisfies the schemas of the
\* operation it is for.
Requests ==
  { [method |-> "GET", path |-> "/a", valid |-> TRUE],
    [method |-> "GET", path |-> "/a", valid |-> FALSE],
    [method |-> "GET", path |-> "/b", valid |-> TRUE],
    [method |-> "POST", path |-> "/a", valid |-> TRUE],
    [method |-> "GET", path |-> "/x", valid |-> TRUE] }

NoRawRequest == [method |-> "", path |-> "", valid |-> TRUE]

NoRequest == [method |-> "", path |-> "", template |-> NoPath, parsedWith |-> ""]

\* The caller's extra arguments to handleRequest.
HandlerArgs == {<<"x1", "x2">>}

\* The handler keys with a dispatch meaning of their own.
ReservedKeys == {"notFound", "404", "notImplemented", "501", "validationFail", "postResponseHandler"}

Keys == OperationIds \cup {"unknownOp"} \cup ReservedKeys

\* public allowedHandlers = [...]
allowedHandlers == {"notFound", "notImplemented", "validationFail", "postResponseHandler"}

NoHandlers == [k \in Keys |-> Undefined]

\* The handler maps a caller passes to the constructor.
InitialHandlerMaps ==
  { NoHandlers,
    [NoHandlers EXCEPT !["opA"] = Fn("opA"), !["notFound"] = Fn("notFound"),
                       !["notImplemented"] = Fn("notImplemented"),
                       !["validationFail"] = Fn("validationFail")],
    [NoHandlers EXCEPT !["opA"] = Fn("opA"), !["postResponseHandler"] = Fn("postResponseHandler")],
    [NoHandlers EXCEPT !["opA"] = NotAFunction, !["opB"] = Null],
    [NoHandlers EXCEPT !["unknownOp"] = Fn("unknownOp")] }

\* The handler maps a caller passes to register(handlers): the entries in
\* the order `for ... in` enumerates them.
RegisterMaps ==
  { << <<"opA", Fn("opA")>>, <<"opB", Null>>, <<"notFound", Fn("notFound")>> >>,
    << <<"opB", Fn("opB")>>, <<"validationFail", NotAFunction>>, <<"opA", Fn("opA")>> >> }

VARIABLES
  inputDocument,  \* this.inputDocument: how the contract document fares in init()
  strict,         \* this.strict
  validate,       \* this.validate: "true", "false" or "predicate" (a BoolPredicate)
  withContext,    \* this.withContext
  document,       \* this.document
  definition,     \* this.definition
  initalized,     \* this.initalized
  handlers,       \* this.handlers
  router,         \* this.router
  validator,      \* this.validator
  pc,             \* per caller: where its call is
  op,             \* per caller: the API call it is in
  req,            \* per caller: handleRequest's req
  args,           \* per caller: handleRequest's handlerArgs
  context,        \* per caller: handleRequest's context
  response,       \* per caller: handleRequest's response
  calls,          \* per caller: the handler invocations of its call, in order
  gate,           \* per caller: the evaluations of the validate predicate
  outcome,        \* per caller: how its last call ended
  concurrent,     \* whether the user makes a call while another one is in flight
  registration,   \* how the register / registerHandler call of the last step ended
  nregistrations, \* the number of register / registerHandler calls made
  responses,      \* the `responses` the contract document declares for operation opA
  mock            \* the mockResponseForOperation call of the last step and how it ended

vars == <<inputDocument, strict, validate, withContext, document, definition, initalized,
          handlers, router, validator, pc, op, req, args, context, response, calls, gate,
          outcome, concurrent, registration, nregistrations, responses, mock>>

config == <<inputDocument, responses, strict, validate, withContext, concurrent>>

(***************************************************************************)
(* The router and the validator (./router, ./validation).                  *)
(***************************************************************************)
NoRouter == [instance |-> 0, definition |-> "undefined"]

NoValidator == [instance |-> 0, definition |-> "undefined"]

\* new OpenAPIRouter({ definition, apiRoot }): the n-th router built.
NewRouter(n, def) == [instance |-> n, definition |-> def]

\* new OpenAPIValidator({ definition, ajvOpts, router })
NewValidator(r, def) == [instance |-> r.instance, definition |-> def]

\* The operations a router knows: those of the definition it was built
\* from, none when it was built without one.
OperationTable(r) == IF r.definition = "dereferenced" THEN Operations ELSE {}

\* router.getOperation(operationId)
GetOperation(r, id) ==
  IF \E o \in OperationTable(r) : o.operationId = id
  THEN CHOOSE o \in OperationTable(r) : o.operationId = id
  ELSE NoOperation

\* router.matchOperation(req): no operation when no path template matches;
\* an operation without operationId when the path matches and the method is
\* not declared for it.
MatchOperation(r, request) ==
  IF \E o \in OperationTable(r) : o.path = request.path /\ o.method = request.method
  THEN CHOOSE o \in OperationTable(r) : o.path = request.path /\ o.method = request.method
  ELSE IF \E o \in OperationTable(r) : o.path = request.path
       THEN Operation(NoOperationId, request.path, request.method)
       ELSE NoOperation

\* router.parseRequest(req, path?): with a known path template the
\* parameters are extracted with it, otherwise the path matcher derives it.
ParseRequest(r, request, knownPath) ==
  [method |-> request.method, path |-> request.path,
   template |-> IF knownPath # NoPath THEN knownPath
                ELSE IF \E o \in OperationTable(r) : o.path = request.path
                     THEN request.path ELSE NoPath,
   parsedWith |-> IF knownPath # NoPath THEN "knownPath" ELSE "pathMatcher"]

NoValidation == [ran |-> FALSE, valid |-> TRUE, errors |-> <<>>]

\* validator.validateRequest(req, operation): errors is undefined (here the
\* empty sequence) exactly when the request is valid.
ValidateRequest(request, operation) ==
  [ran |-> TRUE, valid |-> request.valid,
   errors |-> IF request.valid THEN <<>> ELSE <<"request does not match the schema">>]

(***************************************************************************)
(* Registration: registerHandler and register.                             *)
(***************************************************************************)
\* The result of a registration: the registry afterwards, whether the call
\* threw and what, and what it passed to console.warn.
Registered(h, w) == [handlers |-> h, raised |-> FALSE, error |-> NoError, warned |-> w]
Refused(h, e, w) == [handlers |-> h, raised |-> TRUE, error |-> e, warned |-> w]

\* _.includes(this.allowedHandlers, operationId)
IsAllowedHandler(operationId) == operationId \in allowedHandlers

\* A faulty ChecksOperationId: the operationId is checked before
\* initialization too.
ChecksOperationIdAlways(inited) == TRUE

\* registerHandler's `if (this.initalized)`: whether the operationId is
\* checked against the contract.
ChecksOperationId(inited) == inited

\* registerHandler(operationId, handler) on registry h, with the warnings
\* w emitted so far.
RegisterHandler(h, inited, r, operationId, handler, w) ==
  IF ~IsFunction(handler)
  THEN Refused(h, Error(<<"Handler should be a function">>), w)
  ELSE IF ChecksOperationId(inited)
          /\ ~GetOperation(r, operationId).defined /\ ~IsAllowedHandler(operationId)
       THEN IF strict
            THEN Refused(h, Error(<<"Unknown operationId ", operationId, ". Refusing to register handler">>), w)
            ELSE Registered([h EXCEPT ![operationId] = handler],
                            Append(w, <<"Unknown operationId ", operationId>>))
       ELSE Registered([h EXCEPT ![operationId] = handler], w)

\* register(handlers): the loop over the entries of the map, from entry i.
RECURSIVE RegisterFrom(_, _, _, _, _, _)
RegisterFrom(h, inited, r, entries, i, w) ==
  IF i > Len(entries) THEN Registered(h, w)
  ELSE IF ~Truthy(entries[i][2])
       THEN RegisterFrom(h, inited, r, entries, i + 1, w)
       ELSE LET one == RegisterHandler(h, inited, r, entries[i][1], entries[i][2], w)
            IN IF one.raised THEN one
               ELSE RegisterFrom(one.handlers, inited, r, entries, i + 1, one.warned)

\* The order in which `for ... in` enumerates the keys of a handler map:
\* the integer-like keys in ascending order, then the others.
KeyOrder == <<"404", "501", "opA", "opB", "unknownOp", "notFound", "notImplemented",
              "validationFail", "postResponseHandler">>

\* The own entries of the registry h, in enumeration order.
RECURSIVE EntriesFrom(_, _)
EntriesFrom(h, i) ==
  IF i > Len(KeyOrder) THEN <<>>
  ELSE (IF h[KeyOrder[i]] = Undefined THEN <<>> ELSE << <<KeyOrder[i], h[KeyOrder[i]]>> >>)
       \o EntriesFrom(h, i + 1)

Entries(h) == EntriesFrom(h, 1)

\* The arguments of a register call: (operationId, handler) or (handlers).
RegisterArgs ==
  [kind : {"one"}, operationId : {"opA", "notFound"}, handler : {NotAFunction}, map : {<<>>}]
  \cup { [kind |-> "one", operationId |-> k, handler |-> Fn(k), map |-> <<>>] : k \in Keys }
  \cup [kind : {"many"}, operationId : {""}, handler : {Undefined}, map : RegisterMaps]

\* register(...args)
Register(h, inited, r, a) ==
  IF a.kind = "one"
  THEN RegisterHandler(h, inited, r, a.operationId, a.handler, <<>>)
  ELSE RegisterFrom(h, inited, r, a.map, 1, <<>>)

(***************************************************************************)
(* handleRequest: the dispatch pipeline.                                   *)
(***************************************************************************)
\* const context: Context = { api: this }
EmptyContext ==
  [request |-> NoRequest, operation |-> NoOperation, validation |-> NoValidation,
   response |-> Undefined]

\* A faulty PassesContext: no handler gets the context.
PassesContextNever == FALSE

\* Whether a handler gets the context as its first argument.
PassesContext == withContext

\* One invocation of the function h: `h(context, ...handlerArgs)` or
\* `h(...handlerArgs)`, with the context as it is at the call.
Call(role, h, ctx, a) ==
  [role |-> role, fn |-> h.name, withContext |-> PassesContext,
   context |-> IF PassesContext THEN ctx ELSE EmptyContext, args |-> a]

\* How the inner async function of handleRequest ends.
Returned(ctx, cs, g, v) ==
  [context |-> ctx, calls |-> cs, gate |-> g, raised |-> FALSE, value |-> v, error |-> NoError]
Thrown(ctx, cs, g, e) ==
  [context |-> ctx, calls |-> cs, gate |-> g, raised |-> TRUE, value |-> Undefined, error |-> e]

\* Calling h: a value that is no function cannot be called.
Invoke(role, h, ctx, cs, g, a) ==
  IF IsFunction(h)
  THEN Returned(ctx, Append(cs, Call(role, h, ctx, a)), g, ResultOf(h))
  ELSE Thrown(ctx, cs, g, TypeError(<<role, "handler is not a function">>))

\* A faulty NotFoundHandler: the '404' key is not looked up.
NotFoundHandlerByName(h) == h["notFound"]

\* this.handlers['404'] || this.handlers['notFound']
NotFoundHandler(h) == IF Truthy(h["404"]) THEN h["404"] ELSE h["notFound"]

\* A faulty NotImplementedHandler: the '501' key is not looked up.
NotImplementedHandlerByName(h) == h["notImplemented"]

\* this.handlers['501'] || this.handlers['notImplemented']
NotImplementedHandler(h) == IF Truthy(h["501"]) THEN h["501"] ELSE h["notImplemented"]

\* this.handlers['validationFail']
ValidationFailHandler(h) == h["validationFail"]

\* A faulty RouteHandler: the handler of one fixed operation.
RouteHandlerOfOpA(h, operationId) == h["opA"]

\* this.handlers[operationId]: undefined for a key the object does not have.
RouteHandler(h, operationId) == IF operationId \in DOMAIN h THEN h[operationId] ELSE Undefined

\* this.handlers['postResponseHandler']
PostResponseHandler(h) == h["postResponseHandler"]

\* !context.operation || !context.operation.operationId
IsRoutingMiss(operation) == ~operation.defined \/ operation.operationId = NoOperationId

\* A faulty ShouldValidate: every matched request is validated.
ShouldValidateAlways(predicateResult) == TRUE

\* typeof this.validate === 'function' ? this.validate(context, ...handlerArgs)
\*                                      : Boolean(this.validate)
ShouldValidate(predicateResult) ==
  IF validate = "predicate" THEN predicateResult ELSE validate = "true"

\* What the validate predicate may return for a request.
PredicateResults == IF validate = "predicate" THEN BOOLEAN ELSE {FALSE}

\* A faulty TakesValidationFail: taken without a validationFail handler.
TakesValidationFailUnregistered(validation, handler) == validation.errors # <<>>

\* A faulty TakesValidationFail: taken for a request without errors.
TakesValidationFailValid(validation, handler) == Truthy(handler)

\* if (context.validation.errors) { if (validationFailHandler) ...
TakesValidationFail(validation, handler) == validation.errors # <<>> /\ Truthy(handler)

\* The inner async function of handleRequest for request r with extra
\* arguments a, the validate predicate returning predicateResult.
Route(r, a, predicateResult) ==
  LET operation == MatchOperation(router, r)
      matched == [EmptyContext EXCEPT !.request = ParseRequest(router, r, NoPath),
                                      !.operation = operation]
  IN IF IsRoutingMiss(operation)
     THEN IF ~Truthy(NotFoundHandler(handlers))
          THEN Thrown(matched, <<>>, <<>>, Error(<<"404-notFound: no route matches request">>))
          ELSE Invoke("notFound", NotFoundHandler(handlers), matched, <<>>, <<>>, a)
     ELSE
       LET reparsed == [matched EXCEPT !.request = ParseRequest(router, r, operation.path)]
           g == IF validate = "predicate"
                THEN <<[context |-> reparsed, result |-> predicateResult]>> ELSE <<>>
           doValidate == ShouldValidate(predicateResult)
           ctx == IF doValidate
                  THEN [reparsed EXCEPT !.validation = ValidateRequest(r, operation)]
                  ELSE reparsed
       IN IF doValidate /\ TakesValidationFail(ctx.validation, ValidationFailHandler(handlers))
          THEN Invoke("validationFail", ValidationFailHandler(handlers), ctx, <<>>, g, a)
          ELSE IF ~Truthy(RouteHandler(handlers, operation.operationId))
               THEN IF ~Truthy(NotImplementedHandler(handlers))
                    THEN Thrown(ctx, <<>>, g,
                                Error(<<"501-notImplemented: ", operation.operationId,
                                        " no handler registered">>))
                    ELSE Invoke("notImplemented", NotImplementedHandler(handlers), ctx, <<>>, g, a)
               ELSE Invoke("route", RouteHandler(handlers, operation.operationId), ctx, <<>>, g, a)

\* A faulty PostResponse: the post response handler is never invoked.
PostResponseSkipped(h, ctx, resp, cs, g, a) == Returned(ctx, cs, g, resp)

\* A faulty PostResponse: the post response handler is invoked without the
\* response in the context.
PostResponseUnset(h, ctx, resp, cs, g, a) ==
  IF Truthy(PostResponseHandler(h))
  THEN Invoke("postResponse", PostResponseHandler(h), ctx, cs, g, a)
  ELSE Returned(ctx, cs, g, resp)

\* What handleRequest returns once the response has resolved.
PostResponse(h, ctx, resp, cs, g, a) ==
  IF Truthy(PostResponseHandler(h))
  THEN Invoke("postResponse", PostResponseHandler(h), [ctx EXCEPT !.response = resp], cs, g, a)
  ELSE Returned(ctx, cs, g, resp)

(***************************************************************************)
(* mockResponseForOperation.  The contract's `responses` of an operation   *)
(* map a status code to a response; a response may have a content map      *)
(* from media type to media response, and a media response an inline       *)
(* example, a map of named examples and a schema.  Maps with string keys   *)
(* are sequences of <<key, value>> in declaration order.                   *)
(***************************************************************************)
\* An example value, a falsy example value, a schema, and const defaultMock = {}
Literal(n) == [type |-> "object", name |-> n]
Zero == [type |-> "number", name |-> "0"]
Schema(n) == [type |-> "object", name |-> n]
defaultMock == [type |-> "object", name |-> "{}"]

\* mock(schema) of mock-json-schema: a value made from the schema.
Mock(schema) == [type |-> "mock", name |-> schema.name]

NoExamples == [defined |-> FALSE, entries |-> <<>>]
Examples(entries) == [defined |-> TRUE, entries |-> entries]
NoExample == [declared |-> FALSE, value |-> Undefined]
Example(v) == [declared |-> TRUE, value |-> v]

NoMediaResponse == [declared |-> FALSE, example |-> Undefined, examples |-> NoExamples, schema |-> Undefined]
MediaResponse(example, examples, schema) ==
  [declared |-> TRUE, example |-> example, examples |-> examples, schema |-> schema]

NoContent == [defined |-> FALSE, entries |-> <<>>]
Content(entries) == [defined |-> TRUE, entries |-> entries]

NoResponse == [declared |-> FALSE, content |-> NoContent]
Response(content) == [declared |-> TRUE, content |-> content]

\* The status codes a `responses` object may declare.
ResponseCodes == {200, 201, 404}

NoResponses == [defined |-> FALSE, byCode |-> [c \in ResponseCodes |-> NoResponse]]
Responses(byCode) == [defined |-> TRUE, byCode |-> byCode]

\* The media responses of the documents' application/json entries.
TwoExamples == Examples(<< <<"a", Example(Literal("a"))>>, <<"b", Example(Literal("b"))>> >>)
MediaResponses ==
  { MediaResponse(Literal("inline"), NoExamples, Schema("json")),
    MediaResponse(Literal("inline"), TwoExamples, Schema("json")),
    MediaResponse(Undefined, TwoExamples, Schema("json")),
    MediaResponse(Undefined, Examples(<< <<"a", Example(Undefined)>>, <<"b", Example(Literal("b"))>> >>),
                  Schema("json")),
    MediaResponse(Undefined, Examples(<<>>), Schema("json")),
    MediaResponse(Zero, NoExamples, Schema("json")),
    MediaResponse(Undefined, NoExamples, Schema("json")),
    MediaResponse(Undefined, NoExamples, Undefined) }

\* A media response with a schema only.
SchemaOf(n) == MediaResponse(Undefined, NoExamples, Schema(n))

\* The content maps of the documents.
Contents ==
  {NoContent, Content(<<>>)}
  \cup { Content(<< <<"application/json", m>> >>) : m \in MediaResponses }
  \cup { Content(<< <<"text/plain", SchemaOf("plain")>>, <<"application/json", SchemaOf("json")>> >>),
         Content(<< <<"text/plain", SchemaOf("plain")>>, <<"text/html", SchemaOf("html")>> >>) }

\* The response with a schema only, for application/json.
SchemaOnlyResponse == Response(Content(<< <<"application/json", SchemaOf("json")>> >>))

SchemaOnly == Responses([NoResponses.byCode EXCEPT ![200] = SchemaOnlyResponse])

\* The `responses` of operation opA in the documents.
ResponsesOfDocuments ==
  { Responses([NoResponses.byCode EXCEPT ![200] = Response(c)]) : c \in Contents }
  \cup { Responses([NoResponses.byCode EXCEPT ![404] = Response(NoContent)]),
         Responses([NoResponses.byCode EXCEPT ![200] = Response(NoContent), ![404] = SchemaOnlyResponse]),
         Responses([NoResponses.byCode EXCEPT ![201] = SchemaOnlyResponse, ![404] = Response(NoContent)]),
         Responses([NoResponses.byCode EXCEPT ![404] = SchemaOnlyResponse]) }

\* The operationIds mockResponseForOperation is called with.
MockOperationIds == {"opA", "opB", "unknownOp"}

\* The opts of a mockResponseForOperation call: 0 and "" for an option
\* that is not given.
MockOpts ==
  [code : {0, 200, 404}, mediaType : {"", "application/json", "text/plain", "text/xml"},
   example : {"", "b", "zz"}]

\* How a mockResponseForOperation call ends; media is the key of the
\* content entry it resolved, "" when it resolved none.
MockReturned(status, m, media) ==
  [raised |-> FALSE, status |-> status, mock |-> m, media |-> media, error |-> NoError]
MockThrown(e, media) ==
  [raised |-> TRUE, status |-> 0, mock |-> Undefined, media |-> media, error |-> e]

\* operation.responses: of the operations of the document, opA declares
\* responses.
ResponsesOf(operation) == IF operation.operationId = "opA" THEN responses ELSE NoResponses

\* OpenAPIUtils.findDefaultStatusCodeMatch(responses): the lowest 2xx status
\* declared, else the first status declared.
FindDefaultStatusCodeMatch(resps) ==
  LET declared == {c \in ResponseCodes : resps.byCode[c].declared}
      success == {c \in declared : c >= 200 /\ c < 300}
      Lowest(S) == CHOOSE c \in S : \A d \in S : c <= d
  IN IF success # {} THEN [status |-> Lowest(success), res |-> resps.byCode[Lowest(success)]]
     ELSE IF declared # {} THEN [status |-> Lowest(declared), res |-> resps.byCode[Lowest(declared)]]
     ELSE [status |-> 0, res |-> NoResponse]

\* if (opts.code && responses[opts.code]) ... else findDefaultStatusCodeMatch
SelectResponse(resps, opts) ==
  IF opts.code # 0 /\ opts.code \in ResponseCodes /\ resps.byCode[opts.code].declared
  THEN [status |-> opts.code, res |-> resps.byCode[opts.code]]
  ELSE FindDefaultStatusCodeMatch(resps)

\* map[key] for a map given by its entries: the absent value when the map
\* has no such key.
HasKey(entries, key) == \E i \in 1..Len(entries) : entries[i][1] = key
Get(entries, key, absent) ==
  IF HasKey(entries, key)
  THEN entries[CHOOSE i \in 1..Len(entries) : entries[i][1] = key][2]
  ELSE absent

\* const mediaType = opts.mediaType || 'application/json';
\* content[mediaType] || content[Object.keys(content)[0]]
ResolveMedia(content, opts) ==
  LET mediaType == IF opts.mediaType # "" THEN opts.mediaType ELSE "application/json"
  IN IF HasKey(content.entries, mediaType)
     THEN [key |-> mediaType, res |-> Get(content.entries, mediaType, NoMediaResponse)]
     ELSE IF Len(content.entries) > 0
          THEN [key |-> content.entries[1][1], res |-> content.entries[1][2]]
          ELSE [key |-> "", res |-> NoMediaResponse]

\* The rest of mockResponseForOperation, from `const { examples, schema }`:
\* the body for the media response m resolved under key media.
SelectBody(status, media, m, opts) ==
  LET exampleObject == Get(m.examples.entries, opts.example, NoExample)
  IN IF opts.example # "" /\ m.examples.defined /\ exampleObject.declared
        /\ Truthy(exampleObject.value)
     THEN MockReturned(status, exampleObject.value, media)
     ELSE IF Truthy(m.example)
          THEN MockReturned(status, m.example, media)
          ELSE IF m.examples.defined
               THEN IF Len(m.examples.entries) = 0
                    THEN MockThrown(TypeError(<<"Cannot read property 'value' of undefined">>), media)
                    ELSE MockReturned(status, m.examples.entries[1][2].value, media)
               ELSE IF Truthy(m.schema)
                    THEN MockReturned(status, Mock(m.schema), media)
                    ELSE MockReturned(status, defaultMock, media)

\* mockResponseForOperation(operationId, opts) with this.router being r.
MockResponseForOperation(r, operationId, opts) ==
  IF r = NoRouter
  THEN MockThrown(TypeError(<<"Cannot read property 'getOperation' of undefined">>), "")
  ELSE LET operation == GetOperation(r, operationId)
       IN IF ~operation.defined \/ ~ResponsesOf(operation).defined
          THEN MockReturned(200, defaultMock, "")
          ELSE LET sel == SelectResponse(ResponsesOf(operation), opts)
               IN IF ~sel.res.declared \/ ~sel.res.content.defined
                  THEN MockReturned(sel.status, defaultMock, "")
                  ELSE LET m == ResolveMedia(sel.res.content, opts)
                       IN IF ~m.res.declared
                          THEN MockReturned(sel.status, defaultMock, "")
                          ELSE SelectBody(sel.status, m.key, m.res, opts)

NoMock ==
  [called |-> FALSE, operationId |-> NoOperationId,
   opts |-> [code |-> 0, mediaType |-> "", example |-> ""],
   result |-> MockReturned(0, Undefined, "")]

(***************************************************************************)
(* The state machine.                                                      *)
(***************************************************************************)
NoOutcome == [status |-> "none", value |-> Undefined, error |-> NoError, warned |-> <<>>]
Return(v, w) == [status |-> "returned", value |-> v, error |-> NoError, warned |-> w]
Raise(e, w) == [status |-> "raised", value |-> Undefined, error |-> e, warned |-> w]

NoRegistration == [status |-> "none", args |-> <<>>, inited |-> FALSE, error |-> NoError, warned |-> <<>>]

This == [type |-> "object", name |-> "this"]

InputDocuments == {"valid", "unparsable", "invalid", "unresolvable"}

\* The constructor, and how the instance is going to be used: one call at
\* a time with any options, or overlapping calls on a valid document with
\* the handlers of the constructor.
Init ==
  /\ inputDocument \in InputDocuments
  /\ strict \in BOOLEAN
  /\ validate \in {"true", "false", "predicate"}
  /\ withContext \in BOOLEAN
  /\ handlers \in InitialHandlerMaps
  /\ concurrent \in BOOLEAN
  /\ concurrent => inputDocument = "valid" /\ withContext
  /\ document = "undefined"
  /\ definition = "undefined"
  /\ initalized = FALSE
  /\ router = NoRouter
  /\ validator = NoValidator
  /\ pc = [p \in Callers |-> "idle"]
  /\ op = [p \in Callers |-> "none"]
  /\ req = [p \in Callers |-> NoRawRequest]
  /\ args = [p \in Callers |-> <<>>]
  /\ context = [p \in Callers |-> EmptyContext]
  /\ response = [p \in Callers |-> Undefined]
  /\ calls = [p \in Callers |-> <<>>]
  /\ gate = [p \in Callers |-> <<>>]
  /\ outcome = [p \in Callers |-> NoOutcome]
  /\ registration = NoRegistration
  /\ nregistrations = 0
  /\ responses = SchemaOnly
  /\ mock = NoMock

\* A faulty SetFrame: one context object serves all the calls in flight.
SetFrameShared(p, where, ctx, resp, cs, g, out) ==
  /\ pc' = [pc EXCEPT ![p] = where]
  /\ context' = [q \in Callers |-> ctx]
  /\ response' = [response EXCEPT ![p] = resp]
  /\ calls' = [calls EXCEPT ![p] = cs]
  /\ gate' = [gate EXCEPT ![p] = g]
  /\ outcome' = [outcome EXCEPT ![p] = out]

\* The frame of caller p's call.
SetFrame(p, where, ctx, resp, cs, g, out) ==
  /\ pc' = [pc EXCEPT ![p] = where]
  /\ context' = [context EXCEPT ![p] = ctx]
  /\ response' = [response EXCEPT ![p] = resp]
  /\ calls' = [calls EXCEPT ![p] = cs]
  /\ gate' = [gate EXCEPT ![p] = g]
  /\ outcome' = [outcome EXCEPT ![p] = out]

\* Caller p's call moves to `where` with nothing else of its frame changed.
Goto(p, where) ==
  /\ pc' = [pc EXCEPT ![p] = where]
  /\ UNCHANGED <<context, response, calls, gate, outcome>>

\* Caller p's call ends.
End(p, out) ==
  /\ pc' = [pc EXCEPT ![p] = "done"]
  /\ outcome' = [outcome EXCEPT ![p] = out]
  /\ UNCHANGED <<context, response, calls, gate>>

\* A call has just settled: its caller takes the result before anything
\* else runs.
Settled == \E q \in Callers : pc[q] = "done"

\* Whether caller p may make its call now.
MayCall(p) ==
  /\ ~Settled
  /\ pc[p] = "idle"
  /\ p = "c2" => pc["c1"] # "idle"
  /\ ~concurrent => \A q \in Callers : pc[q] \in {"idle", "finished"}

instance == <<document, definition, initalized, handlers, router, validator>>

\* The inner async function runs for caller p, up to `await`.
RouteStep(p, r, a, predicateResult) ==
  LET res == Route(r, a, predicateResult)
  IN IF res.raised
     THEN SetFrame(p, "done", res.context, Undefined, res.calls, res.gate, Raise(res.error, <<>>))
     ELSE SetFrame(p, "response", res.context, res.value, res.calls, res.gate, NoOutcome)

\* handleRequest(req, ...handlerArgs) is called: without `initalized` it
\* calls init(), which runs up to its first await; otherwise it runs the
\* inner async function at once.
HandleRequest(p, r, a) ==
  /\ MayCall(p)
  /\ op' = [op EXCEPT ![p] = "handleRequest"]
  /\ req' = [req EXCEPT ![p] = r]
  /\ args' = [args EXCEPT ![p] = a]
  /\ IF ~initalized
     THEN SetFrame(p, "parse", EmptyContext, Undefined, <<>>, <<>>, NoOutcome)
     ELSE \E b \in PredicateResults : RouteStep(p, r, a, b)
  /\ registration' = NoRegistration
  /\ mock' = NoMock
  /\ UNCHANGED <<config, instance, nregistrations>>

\* init() is called by the user; it runs up to `await SwaggerParser.parse`.
InitCall(p) ==
  /\ MayCall(p)
  /\ op' = [op EXCEPT ![p] = "init"]
  /\ req' = [req EXCEPT ![p] = NoRawRequest]
  /\ args' = [args EXCEPT ![p] = <<>>]
  /\ SetFrame(p, "parse", EmptyContext, Undefined, <<>>, <<>>, NoOutcome)
  /\ registration' = NoRegistration
  /\ mock' = NoMock
  /\ UNCHANGED <<config, instance, nregistrations>>

\* The rest of init() after its try block, the definition being def and w
\* what was passed to console.warn: router, validator, the flag, then
\* this.register(this.handlers).
InitRest(p, def, w) ==
  LET r == NewRouter(router.instance + 1, def)
      reg == RegisterFrom(handlers, TRUE, r, Entries(handlers), 1, w)
  IN /\ definition' = def
     /\ router' = r
     /\ validator' = NewValidator(r, def)
     /\ initalized' = TRUE
     /\ handlers' = reg.handlers
     /\ IF reg.raised THEN End(p, Raise(reg.error, reg.warned))
        ELSE IF op[p] = "init" THEN End(p, Return(This, reg.warned))
        ELSE /\ pc' = [pc EXCEPT ![p] = "dispatch"]
             /\ outcome' = [outcome EXCEPT ![p] = [NoOutcome EXCEPT !.warned = reg.warned]]
             /\ UNCHANGED <<context, response, calls, gate>>

\* The catch block of init() for the error e.
InitCatch(p, e) ==
  IF strict
  THEN /\ End(p, Raise(e, <<>>))
       /\ UNCHANGED <<definition, initalized, handlers, router, validator>>
  ELSE InitRest(p, definition, <<e.message>>)

\* SwaggerParser.parse settles; on success validateDefinition() runs and
\* SwaggerParser.dereference is awaited.
InitParsed(p) ==
  /\ ~Settled
  /\ pc[p] = "parse"
  /\ IF inputDocument = "unparsable"
     THEN /\ document' = document
          /\ InitCatch(p, Error(<<"the document cannot be parsed">>))
     ELSE /\ document' = "parsed"
          /\ IF inputDocument = "invalid"
             THEN InitCatch(p, Error(<<"Document is not valid OpenAPI">>))
             ELSE /\ Goto(p, "dereference")
                  /\ UNCHANGED <<definition, initalized, handlers, router, validator>>
  /\ registration' = NoRegistration
  /\ mock' = NoMock
  /\ UNCHANGED <<config, op, req, args, nregistrations>>

\* SwaggerParser.dereference settles and init() runs to its end.
InitDereferenced(p) ==
  /\ ~Settled
  /\ pc[p] = "dereference"
  /\ IF inputDocument = "unresolvable"
     THEN InitCatch(p, Error(<<"the document cannot be dereferenced">>))
     ELSE InitRest(p, "dereferenced", <<>>)
  /\ registration' = NoRegistration
  /\ mock' = NoMock
  /\ UNCHANGED <<config, document, op, req, args, nregistrations>>

\* handleRequest resumes after `await this.init()`.
Dispatch(p) ==
  /\ ~Settled
  /\ pc[p] = "dispatch"
  /\ \E b \in PredicateResults :
       LET res == Route(req[p], args[p], b)
       IN IF res.raised
          THEN SetFrame(p, "done", res.context, Undefined, res.calls, res.gate,
                        Raise(res.error, outcome[p].warned))
          ELSE SetFrame(p, "response", res.context, res.value, res.calls, res.gate, outcome[p])
  /\ registration' = NoRegistration
  /\ mock' = NoMock
  /\ UNCHANGED <<config, instance, op, req, args, nregistrations>>

\* A faulty Respond: returning the response resets the initialized flag.
RespondUninitializing(p) ==
  /\ ~Settled
  /\ pc[p] = "response"
  /\ SetFrame(p, "done", context[p], response[p], calls[p], gate[p],
              Return(response[p], outcome[p].warned))
  /\ initalized' = FALSE
  /\ registration' = NoRegistration
  /\ mock' = NoMock
  /\ UNCHANGED <<config, document, definition, handlers, router, validator, op, req, args,
                 nregistrations>>

\* handleRequest resumes after `await` of the response: the post response
\* handler, then the return.
Respond(p) ==
  /\ ~Settled
  /\ pc[p] = "response"
  /\ LET res == PostResponse(handlers, context[p], response[p], calls[p], gate[p], args[p])
     IN SetFrame(p, "done", res.context, response[p], res.calls, res.gate,
                 IF res.raised THEN Raise(res.error, outcome[p].warned)
                 ELSE Return(res.value, outcome[p].warned))
  /\ registration' = NoRegistration
  /\ mock' = NoMock
  /\ UNCHANGED <<config, instance, op, req, args, nregistrations>>

\* register(operationId, handler), registerHandler(operationId, handler) or
\* register(handlers) is called.
RegisterCall(a) ==
  /\ ~Settled
  /\ ~concurrent
  /\ nregistrations < MaxRegistrations
  /\ nregistrations' = nregistrations + 1
  /\ LET res == Register(handlers, initalized, router, a)
     IN /\ handlers' = res.handlers
        /\ registration' = [status |-> IF res.raised THEN "raised" ELSE "returned",
                            args |-> a, inited |-> initalized, error |-> res.error,
                            warned |-> res.warned]
  /\ mock' = NoMock
  /\ UNCHANGED <<config, document, definition, initalized, router, validator,
                 pc, op, req, args, context, response, calls, gate, outcome>>

\* mockResponseForOperation(operationId, opts) is called.  The call changes
\* nothing of the instance: one call is made from a state, not a row of them.
MockCall(operationId, opts) ==
  /\ ~Settled
  /\ ~mock.called
  /\ mock' = [called |-> TRUE, operationId |-> operationId, opts |-> opts,
              result |-> MockResponseForOperation(router, operationId, opts)]
  /\ registration' = NoRegistration
  /\ UNCHANGED <<config, instance, pc, op, req, args, context, response, calls, gate,
                 outcome, nregistrations>>

\* The caller of a settled call has taken its result: the frame of the call
\* is gone.
Collect(p) ==
  /\ pc[p] = "done"
  /\ op' = [op EXCEPT ![p] = "none"]
  /\ req' = [req EXCEPT ![p] = NoRawRequest]
  /\ args' = [args EXCEPT ![p] = <<>>]
  /\ SetFrame(p, "finished", EmptyContext, Undefined, <<>>, <<>>, NoOutcome)
  /\ registration' = NoRegistration
  /\ mock' = NoMock
  /\ UNCHANGED <<config, instance, nregistrations>>

Next ==
  \/ \E p \in Callers, r \in Requests, a \in HandlerArgs : HandleRequest(p, r, a)
  \/ \E p \in Callers : InitCall(p)
  \/ \E p \in Callers : InitParsed(p)
  \/ \E p \in Callers : InitDereferenced(p)
  \/ \E p \in Callers : Dispatch(p)
  \/ \E p \in Callers : Respond(p)
  \/ \E a \in RegisterArgs : RegisterCall(a)
  \/ \E p \in Callers : Collect(p)

Spec == Init /\ [][Next]_vars

\* The constructor for an instance whose contract document declares any of
\* the `responses`, and that gets no handlers.
MockInit ==
  /\ inputDocument \in InputDocuments
  /\ responses \in ResponsesOfDocuments
  /\ strict \in BOOLEAN
  /\ validate = "true"
  /\ withContext = TRUE
  /\ handlers = NoHandlers
  /\ concurrent = FALSE
  /\ document = "undefined"
  /\ definition = "undefined"
  /\ initalized = FALSE
  /\ router = NoRouter
  /\ validator = NoValidator
  /\ pc = [p \in Callers |-> "idle"]
  /\ op = [p \in Callers |-> "none"]
  /\ req = [p \in Callers |-> NoRawRequest]
  /\ args = [p \in Callers |-> <<>>]
  /\ context = [p \in Callers |-> EmptyContext]
  /\ response = [p \in Callers |-> Undefined]
  /\ calls = [p \in Callers |-> <<>>]
  /\ gate = [p \in Callers |-> <<>>]
  /\ outcome = [p \in Callers |-> NoOutcome]
  /\ registration = NoRegistration
  /\ nregistrations = 0
  /\ mock = NoMock

\* init() and mockResponseForOperation calls on that instance.
MockNext ==
  \/ \E p \in Callers : InitCall(p)
  \/ \E p \in Callers : InitParsed(p)
  \/ \E p \in Callers : InitDereferenced(p)
  \/ \E p \in Callers : Collect(p)
  \/ \E operationId \in MockOperationIds, opts \in MockOpts : MockCall(operationId, opts)

MockSpec == MockInit /\ [][MockNext]_vars

(***************************************************************************)
(* Properties.                                                             *)
(***************************************************************************)
\* The step in which caller p's handleRequest runs its inner async
\* function: from the call itself on an initialized instance, or from the
\* resumption after `await this.init()`.
Routes(p) == pc[p] \in {"idle", "dispatch"} /\ pc'[p] \in {"response", "done"}

\* The step in which caller p's handleRequest resumes with the response.
Responds(p) == pc[p] = "response" /\ pc'[p] = "done"

\* The step is a register / registerHandler call.
Registers == nregistrations' = nregistrations + 1

\* The roles of the handlers invoked, in order.
Roles(cs) == [i \in 1..Len(cs) |-> cs[i].role]

\* The invocations other than the post response handler's.
Dispatched(cs) == SelectSeq(cs, LAMBDA c : c.role # "postResponse")

\* The operation caller p's request was matched to has an operationId.
Matched(ctx) == ctx.operation.defined /\ ctx.operation.operationId # NoOperationId

\* The registry entry for operationId.
Entry(h, operationId) == IF operationId \in DOMAIN h THEN h[operationId] ELSE Undefined

\* Exactly the function f was invoked, in the given role.
InvokedOnly(cs, role, f) == Len(cs) = 1 /\ cs[1].role = role /\ cs[1].fn = f.name

\* The validation-fail path: the request was validated, has errors and the
\* registry has a validationFail entry.
ValidationFailPath(ctx, h) == ctx.validation.ran /\ ctx.validation.errors # <<>> /\ Truthy(h["validationFail"])

\* C1 (as claimed): for every declared operationId X with a handler
\* registered, a handleRequest call whose request matches X invokes that
\* handler exactly once and no fallback handler.
C1_DispatchAsClaimed ==
  [][\A p \in Callers :
       Routes(p) /\ Matched(context'[p])
                 /\ IsFunction(Entry(handlers, context'[p].operation.operationId))
       => InvokedOnly(calls'[p], "route", Entry(handlers, context'[p].operation.operationId))]_vars

\* C1 (amended): for every declared operationId X with a handler registered,
\* a handleRequest call whose request matches X and does not take the
\* validation-fail path invokes that handler exactly once and no fallback
\* handler; resuming with the response invokes neither again.
C1_Dispatch ==
  [][\A p \in Callers :
       /\ Routes(p) /\ Matched(context'[p])
                    /\ IsFunction(Entry(handlers, context'[p].operation.operationId))
                    /\ ~ValidationFailPath(context'[p], handlers)
          => /\ InvokedOnly(calls'[p], "route", Entry(handlers, context'[p].operation.operationId))
             /\ pc'[p] = "response"
       /\ Responds(p) => Dispatched(calls'[p]) = Dispatched(calls[p])]_vars

\* C1 witness: a request matched to a declared operation is awaiting the
\* result of that operation's handler, the only handler invoked.
C1_Witness ==
  \E p \in Callers :
    /\ pc[p] = "response"
    /\ Matched(context[p])
    /\ InvokedOnly(calls[p], "route", Fn(context[p].operation.operationId))
    /\ handlers[context[p].operation.operationId] = Fn(context[p].operation.operationId)

\* C2 (as claimed): of the handleRequest calls started on an instance that
\* is not initialized, at most one is inside init() at any time.
C2_SingleFlight ==
  Cardinality({p \in Callers : op[p] = "handleRequest" /\ pc[p] \in {"parse", "dereference"}}) <= 1

\* The validation gate was open for the request: validate is true, or the
\* validate predicate returned true.
GateOpened(g) == IF validate = "predicate" THEN g # <<>> /\ g[1].result ELSE validate = "true"

\* The entry that serves as not-found handler, and as not-implemented handler.
NotFoundEntry(h) == IF Truthy(h["404"]) THEN h["404"] ELSE h["notFound"]
NotImplementedEntry(h) == IF Truthy(h["501"]) THEN h["501"] ELSE h["notImplemented"]

\* Caller p's call raised in this step without invoking a handler.
RaisesUncalled(p) == calls'[p] = <<>> /\ pc'[p] = "done" /\ outcome'[p].status = "raised"

\* C3: with the validation gate open, a matched request that fails
\* validation and no validationFail handler registered, handleRequest goes
\* on to the operation's handler, or to the not-implemented path when there
\* is none, with the failed Validation Result in the Context.
C3_ValidationAdvisory ==
  [][\A p \in Callers :
       Routes(p) /\ Matched(context'[p]) /\ GateOpened(gate'[p]) /\ ~req'[p].valid
                 /\ ~Truthy(handlers["validationFail"])
       => /\ context'[p].validation.ran /\ context'[p].validation.errors # <<>>
          /\ LET h == Entry(handlers, context'[p].operation.operationId)
                 ni == NotImplementedEntry(handlers)
             IN IF IsFunction(h)
                THEN /\ InvokedOnly(calls'[p], "route", h) /\ pc'[p] = "response"
                     /\ withContext => calls'[p][1].context.validation.errors # <<>>
                ELSE IF ~Truthy(h) /\ IsFunction(ni)
                     THEN InvokedOnly(calls'[p], "notImplemented", ni) /\ pc'[p] = "response"
                     ELSE /\ RaisesUncalled(p)
                          /\ ~Truthy(h) /\ ~Truthy(ni)
                             => outcome'[p].error.message[1] = "501-notImplemented: "]_vars

\* C3 witness: a request that failed validation is awaiting the result of
\* its operation's handler, no validationFail handler being registered.
C3_Witness ==
  \E p \in Callers :
    /\ pc[p] = "response"
    /\ context[p].validation.ran /\ context[p].validation.errors # <<>>
    /\ ~req[p].valid
    /\ handlers["validationFail"] = Undefined
    /\ Len(calls[p]) = 1 /\ calls[p][1].role = "route"

\* C4: with the validation gate open, a matched request that fails
\* validation and a validationFail handler registered, handleRequest
\* invokes validationFail and neither the operation's handler nor the
\* notImplemented handler; when validation yields no errors validationFail
\* is not invoked.
C4_ValidationFail ==
  [][\A p \in Callers :
       /\ Routes(p) /\ Matched(context'[p]) /\ GateOpened(gate'[p]) /\ ~req'[p].valid
                    /\ IsFunction(handlers["validationFail"])
          => InvokedOnly(calls'[p], "validationFail", handlers["validationFail"])
             /\ pc'[p] = "response"
       /\ Routes(p) /\ (req'[p].valid \/ ~GateOpened(gate'[p]))
          => \A i \in 1..Len(calls'[p]) : calls'[p][i].role # "validationFail"
       /\ Responds(p) => Dispatched(calls'[p]) = Dispatched(calls[p])]_vars

\* C4 witness: a request that failed validation is awaiting the result of
\* the validationFail handler, while its operation has a handler.
C4_Witness ==
  \E p \in Callers :
    /\ pc[p] = "response"
    /\ ~req[p].valid /\ context[p].validation.errors # <<>>
    /\ InvokedOnly(calls[p], "validationFail", Fn("validationFail"))
    /\ IsFunction(handlers[context[p].operation.operationId])

\* C5: when matchOperation returns no operation, or one without
\* operationId, handleRequest invokes the not-found handler ('404', else
\* 'notFound') and runs no validation and no other handler; without a
\* not-found handler the call raises.
C5_RoutingMiss ==
  [][\A p \in Callers :
       Routes(p) /\ ~Matched(context'[p])
       => /\ ~context'[p].validation.ran /\ gate'[p] = <<>>
          /\ IF IsFunction(NotFoundEntry(handlers))
             THEN InvokedOnly(calls'[p], "notFound", NotFoundEntry(handlers))
                  /\ pc'[p] = "response"
             ELSE /\ RaisesUncalled(p)
                  /\ ~Truthy(NotFoundEntry(handlers))
                     => outcome'[p].error = Error(<<"404-notFound: no route matches request">>)]_vars

\* C5 witness: a request matched to an operation without operationId is
\* awaiting the result of the not-found handler.
C5_Witness ==
  \E p \in Callers :
    /\ pc[p] = "response"
    /\ context[p].operation.defined /\ context[p].operation.operationId = NoOperationId
    /\ Len(calls[p]) = 1 /\ calls[p][1].role = "notFound"

\* C6: when the request matches an operation with an operationId that has
\* no handler, and the validation-fail path is not taken, handleRequest
\* invokes the not-implemented handler ('501', else 'notImplemented');
\* without one the call raises.
C6_DispatchMiss ==
  [][\A p \in Callers :
       Routes(p) /\ Matched(context'[p])
                 /\ ~Truthy(Entry(handlers, context'[p].operation.operationId))
                 /\ ~ValidationFailPath(context'[p], handlers)
       => IF IsFunction(NotImplementedEntry(handlers))
          THEN InvokedOnly(calls'[p], "notImplemented", NotImplementedEntry(handlers))
               /\ pc'[p] = "response"
          ELSE /\ RaisesUncalled(p)
               /\ ~Truthy(NotImplementedEntry(handlers))
                  => outcome'[p].error =
                       Error(<<"501-notImplemented: ", context'[p].operation.operationId,
                               " no handler registered">>)]_vars

\* C6 witness: a request matched to an operation without a handler is
\* awaiting the result of the not-implemented handler.
C6_Witness ==
  \E p \in Callers :
    /\ pc[p] = "response"
    /\ Matched(context[p])
    /\ handlers[context[p].operation.operationId] = Undefined
    /\ Len(calls[p]) = 1 /\ calls[p][1].role = "notImplemented"

\* The value the function named n produces.
ValueOf(n) == [type |-> "result", name |-> n]

\* C7 (as claimed): the value a handleRequest call returns is the value
\* produced by the business or fallback handler it invoked, whatever the
\* registry holds.
C7_ReturnsAsClaimed ==
  [][\A p \in Callers :
       Responds(p) /\ outcome'[p].status = "returned"
       => outcome'[p].value = ValueOf(calls[p][1].fn)]_vars

\* C7 (amended): the response of a handleRequest call is the value produced
\* by the business or fallback handler it invoked; the call returns that
\* response when no postResponseHandler is registered, and otherwise the
\* value produced by the postResponseHandler, which is invoked with the
\* response in context.response.
C7_Returns ==
  [][\A p \in Callers :
       /\ Routes(p) /\ pc'[p] = "response"
          => Len(calls'[p]) = 1 /\ response'[p] = ValueOf(calls'[p][1].fn)
       /\ Responds(p) /\ outcome'[p].status = "returned"
          => IF Truthy(handlers["postResponseHandler"])
             THEN /\ outcome'[p].value = ValueOf(handlers["postResponseHandler"].name)
                  /\ Roles(calls'[p]) = Append(Roles(calls[p]), "postResponse")
                  /\ context'[p].response = response[p]
             ELSE outcome'[p].value = response[p] /\ calls'[p] = calls[p]]_vars

\* C7 witness: a call whose operation handler was invoked has returned the
\* value of the postResponseHandler.
C7_Witness ==
  \E p \in Callers :
    /\ pc[p] = "done" /\ outcome[p].status = "returned"
    /\ Len(calls[p]) = 2 /\ calls[p][1].role = "route"
    /\ outcome[p].value = ValueOf("postResponseHandler")

\* The arguments of a register call hold a handler value that is not a
\* function.
GivesNonFunction(a) ==
  IF a.kind = "one" THEN ~IsFunction(a.handler)
  ELSE \E i \in 1..Len(a.map) : ~IsFunction(a.map[i][2])

\* C8 (as claimed): a handler value that is not a function never is an
\* entry of the registry, and every registration call given one raises.
C8_NonCallableRefused ==
  /\ \A k \in Keys : handlers[k] # Undefined => IsFunction(handlers[k])
  /\ registration.status # "none" /\ GivesNonFunction(registration.args)
     => registration.status = "raised"

\* The operationIds of the key universe that the contract does not declare
\* and that are not reserved.
UnknownIds == Keys \ (OperationIds \cup ReservedKeys)

\* The step registers a function under one operationId with registerHandler.
RegistersFunction ==
  Registers /\ registration'.args.kind = "one" /\ IsFunction(registration'.args.handler)

\* C9 (as claimed): registering a handler for an undeclared, not reserved
\* operationId raises in strict mode and leaves the registry without the
\* entry, and warns and stores it in lenient mode, before and after
\* initialization.
C9_UnknownIdAsClaimed ==
  [][RegistersFunction /\ registration'.args.operationId \in UnknownIds
     => IF strict
        THEN registration'.status = "raised"
             /\ handlers'[registration'.args.operationId] = Undefined
        ELSE /\ registration'.status = "returned"
             /\ registration'.warned # <<>>
             /\ handlers'[registration'.args.operationId] = registration'.args.handler]_vars

\* C9 (amended): on an initialized instance, registering a handler for an
\* undeclared, not reserved operationId raises in strict mode and leaves
\* the registry as it was, and warns and stores the handler in lenient
\* mode; before initialization the handler is stored in both modes, with
\* no warning.
C9_UnknownId ==
  [][RegistersFunction /\ registration'.args.operationId \in UnknownIds
     => LET k == registration'.args.operationId
        IN IF initalized /\ strict
           THEN /\ registration'.status = "raised"
                /\ registration'.error =
                     Error(<<"Unknown operationId ", k, ". Refusing to register handler">>)
                /\ handlers' = handlers
           ELSE /\ registration'.status = "returned"
                /\ registration'.warned =
                     IF initalized THEN << <<"Unknown operationId ", k>> >> ELSE <<>>
                /\ handlers' = [handlers EXCEPT ![k] = registration'.args.handler]]_vars

\* C9 witness: on an initialized strict instance a registration for an
\* undeclared operationId has just been refused.
C9_Witness ==
  /\ initalized /\ strict
  /\ registration.status = "raised"
  /\ registration.args.kind = "one" /\ registration.args.operationId \in UnknownIds
  /\ IsFunction(registration.args.handler)

\* C10 (as claimed): on an instance initialized from a valid document a
\* function registered under any reserved key is stored, with no error and
\* no warning.
C10_ReservedKeys ==
  /\ registration.status # "none" /\ registration.inited /\ inputDocument = "valid"
  /\ registration.args.kind = "one" /\ IsFunction(registration.args.handler)
  /\ registration.args.operationId \in ReservedKeys
  => /\ registration.status = "returned"
     /\ registration.warned = <<>>
     /\ handlers[registration.args.operationId] = registration.args.handler

\* Caller p's init() is at the await whose promise rejects for this document
\* (parse, with the meta-validation that follows it, or dereference).
ContractFails(p) ==
  \/ pc[p] = "parse" /\ inputDocument \in {"unparsable", "invalid"}
  \/ pc[p] = "dereference" /\ inputDocument = "unresolvable"

\* The step is caller p's.
Steps(p) == pc'[p] # pc[p]

\* The number of entries of the registry h that registerHandler warns about
\* on an instance without operations.
UnknownEntries(h) == Cardinality({k \in Keys : Truthy(h[k]) /\ k \notin allowedHandlers})

\* C11 (as claimed): when parsing, meta-validation or dereferencing of the
\* document fails, init() in strict mode raises and creates no router and no
\* validator, does not mark the instance initialized and registers no
\* handler; in lenient mode init() does not raise, creates the router and
\* the validator, marks the instance initialized and registers the initial
\* handlers.
C11_ContractErrors ==
  [][\A p \in Callers :
       ContractFails(p) /\ Steps(p)
       => IF strict
          THEN /\ pc'[p] = "done" /\ outcome'[p].status = "raised"
               /\ UNCHANGED <<router, validator, initalized, handlers, definition>>
          ELSE /\ outcome'[p].status # "raised"
               /\ router'.instance = router.instance + 1
               /\ validator'.instance = router'.instance
               /\ initalized'
               /\ handlers' = handlers
               /\ Len(outcome'[p].warned) = 1 + UnknownEntries(handlers)]_vars

\* The operation a mockResponseForOperation call is for, the response it
\* selects and the content map of that response.
MockOperation == GetOperation(router, mock.operationId)
MockSelected == SelectResponse(ResponsesOf(MockOperation), mock.opts)
MockContent == MockSelected.res.content

\* The call has nothing to mock from: the operation is not found, it has no
\* responses, or the selected response has no content.
NothingToMock ==
  \/ ~MockOperation.defined
  \/ ~ResponsesOf(MockOperation).defined
  \/ ~MockContent.defined

\* C12 (as claimed): mockResponseForOperation never throws, in any state of
\* the instance; when the operation is not found, or has no responses, or
\* the selected response has no content, it returns status 200 with an
\* empty object.
C12_MockFallback ==
  mock.called
  => /\ ~mock.result.raised
     /\ NothingToMock => mock.result.status = 200 /\ mock.result.mock = defaultMock

\* The call selected a response that has a content map with entries.
MockHasContent ==
  /\ mock.called /\ router # NoRouter
  /\ ~NothingToMock
  /\ Len(MockContent.entries) > 0

\* C13 (as claimed): for a selected response with a content map,
\* mockResponseForOperation uses the entry for opts.mediaType when the
\* content map declares it, otherwise the application/json entry when
\* declared, otherwise the first declared entry.
C13_MediaType ==
  MockHasContent
  => mock.result.media =
       IF mock.opts.mediaType # "" /\ HasKey(MockContent.entries, mock.opts.mediaType)
       THEN mock.opts.mediaType
       ELSE IF HasKey(MockContent.entries, "application/json")
            THEN "application/json"
            ELSE MockContent.entries[1][1]

\* The body the priority list gives for the media response m: the requested
\* named example with a literal value, else the inline example, else the
\* first named example, else a value made from the schema, else an empty
\* object.
BodyByPriority(m, opts) ==
  LET requested == Get(m.examples.entries, opts.example, NoExample)
  IN IF opts.example # "" /\ requested.declared /\ requested.value # Undefined
     THEN requested.value
     ELSE IF m.example # Undefined THEN m.example
     ELSE IF Len(m.examples.entries) > 0 THEN m.examples.entries[1][2].value
     ELSE IF m.schema # Undefined THEN Mock(m.schema)
     ELSE defaultMock

\* C14 (as claimed): for the media-type entry it resolved,
\* mockResponseForOperation returns the body of the first rule of the
\* priority list that applies, for every combination of opts.example,
\* inline example, named examples and schema.
C14_BodyPriority ==
  MockHasContent /\ mock.result.media # ""
  => /\ ~mock.result.raised
     /\ mock.result.mock =
          BodyByPriority(Get(MockContent.entries, mock.result.media, NoMediaResponse), mock.opts)

\* The context without its response.
Request(ctx) == [ctx EXCEPT !.response = Undefined]

\* C15: every handler invoked in a handleRequest call (business handler,
\* notFound, notImplemented, validationFail, postResponseHandler) gets the
\* call's Context followed by the caller's arguments in their order when
\* withContext is true, and the caller's arguments alone when it is false.
C15_CallingConvention ==
  \A p \in Callers : \A i \in 1..Len(calls[p]) :
    /\ calls[p][i].args = args[p]
    /\ calls[p][i].withContext = withContext
    /\ IF withContext
       THEN /\ Request(calls[p][i].context) = Request(context[p])
            /\ calls[p][i].role = "postResponse" => calls[p][i].context.response = response[p]
       ELSE calls[p][i].context = EmptyContext

\* C15 witness: a call has invoked an operation's handler and then the
\* postResponseHandler, both with the caller's arguments alone.
C15_Witness ==
  \E p \in Callers :
    /\ ~withContext
    /\ Roles(calls[p]) = <<"route", "postResponse">>
    /\ calls[p][2].args = <<"x1", "x2">>

\* The parts of the message of error e.
Names(e) == {e.message[i] : i \in 1..Len(e.message)}

\* C16 (as claimed): a failure that handleRequest raises because a fallback
\* handler is missing identifies the request: the not-implemented failure
\* names the operationId, the not-found failure the method and the path of
\* the request.
C16_ErrorsIdentifyRequest ==
  [][\A p \in Callers :
       Routes(p) /\ RaisesUncalled(p) /\ outcome'[p].error.type = "Error"
       => IF Matched(context'[p])
          THEN context'[p].operation.operationId \in Names(outcome'[p].error)
          ELSE {req'[p].method, req'[p].path} \subseteq Names(outcome'[p].error)]_vars

\* The invocations of the post response handler.
Hooks(cs) == SelectSeq(cs, LAMBDA c : c.role = "postResponse")

\* C17: in one handleRequest call the operation is matched before the
\* validation gate is evaluated, the gate is evaluated before a business or
\* notImplemented handler is invoked, and the post response handler, when
\* registered, is invoked exactly once, after the result of the preceding
\* handler has resolved and with that result in context.response; it is not
\* invoked by a call that raised before it had a response.
C17_PipelineOrder ==
  [][\A p \in Callers :
       /\ Routes(p)
          => /\ \A i \in 1..Len(gate'[p]) :
                  /\ gate'[p][i].context.operation = MatchOperation(router, req'[p])
                  /\ Matched(gate'[p][i].context)
                  /\ gate'[p][i].context.validation = NoValidation
             /\ \A i \in 1..Len(calls'[p]) :
                  calls'[p][i].role \in {"route", "notImplemented"}
                  => /\ validate = "predicate" => Len(gate'[p]) = 1
                     /\ context'[p].validation.ran = GateOpened(gate'[p])
             /\ Hooks(calls'[p]) = <<>>
             /\ pc'[p] = "done" => outcome'[p].status = "raised" /\ response'[p] = Undefined
       /\ Responds(p)
          => /\ Len(calls[p]) = 1 /\ response[p] = ValueOf(calls[p][1].fn)
             /\ IF IsFunction(handlers["postResponseHandler"])
                THEN /\ calls'[p] = Append(calls[p], calls'[p][2])
                     /\ Len(Hooks(calls'[p])) = 1
                     /\ context'[p].response = response[p]
                     /\ withContext => calls'[p][2].context.response = response[p]
                ELSE calls'[p] = calls[p]]_vars

\* C17 witness: a call whose validate predicate returned true has invoked
\* the operation's handler and then the post response handler, with the
\* handler's result as context.response.
C17_Witness ==
  \E p \in Callers :
    /\ pc[p] = "done" /\ outcome[p].status = "returned"
    /\ Len(gate[p]) = 1 /\ gate[p][1].result
    /\ Roles(calls[p]) = <<"route", "postResponse">>
    /\ withContext /\ calls[p][2].context.response = ValueOf(calls[p][1].fn)

\* C18: for a request that matches an operation, a validate predicate is
\* evaluated exactly once, against the Context that holds the matched
\* operation and the request parsed again with the matched path, and never
\* for a request that is not matched; when validate is false or the
\* predicate returns false, request validation is not run, the Context has
\* no Validation Result and validationFail is not invoked.
C18_ValidationGate ==
  [][\A p \in Callers :
       /\ Routes(p) /\ Matched(context'[p]) /\ validate = "predicate"
          => /\ Len(gate'[p]) = 1
             /\ gate'[p][1].context.operation = MatchOperation(router, req'[p])
             /\ gate'[p][1].context.request =
                  ParseRequest(router, req'[p], context'[p].operation.path)
             /\ gate'[p][1].context.request.parsedWith = "knownPath"
       /\ Routes(p) /\ (~Matched(context'[p]) \/ validate # "predicate") => gate'[p] = <<>>
       /\ Routes(p) /\ ~GateOpened(gate'[p])
          => /\ context'[p].validation = NoValidation
             /\ \A i \in 1..Len(calls'[p]) :
                  /\ calls'[p][i].role # "validationFail"
                  /\ calls'[p][i].context.validation = NoValidation
       /\ Responds(p) => gate'[p] = gate[p] /\ context'[p].validation = context[p].validation]_vars

\* C18 witness: the validate predicate has returned false for a request
\* that violates the schema, and the operation's handler was invoked though
\* a validationFail handler is registered.
C18_Witness ==
  \E p \in Callers :
    /\ pc[p] = "response"
    /\ validate = "predicate" /\ Len(gate[p]) = 1 /\ ~gate[p][1].result
    /\ ~req[p].valid /\ IsFunction(handlers["validationFail"])
    /\ context[p].validation = NoValidation
    /\ Len(calls[p]) = 1 /\ calls[p][1].role = "route"

\* Caller p's handleRequest call has run its inner async function: it has
\* parsed a request.
Routed(p) ==
  op[p] = "handleRequest" /\ pc[p] \in {"response", "done"} /\ context[p].request # NoRequest

\* C19: when several handleRequest calls are in flight and interleave at
\* their awaits, the request, operation, validation and response that a
\* call's Context holds, and that its handlers and post response handler
\* were given, are those of that call.
C19_ContextIsolation ==
  \A p \in Callers :
    Routed(p)
    => /\ context[p].request.method = req[p].method
       /\ context[p].request.path = req[p].path
       /\ context[p].operation = MatchOperation(router, req[p])
       /\ context[p].validation.ran => context[p].validation.valid = req[p].valid
       /\ context[p].response \in {Undefined, response[p]}
       /\ pc[p] = "response" => response[p] = ValueOf(calls[p][1].fn)
       /\ \A i \in 1..Len(calls[p]) :
            withContext => Request(calls[p][i].context) = Request(context[p])

\* C19 witness: two handleRequest calls for different operations are
\* awaiting the results of their handlers at the same time.
C19_Witness ==
  /\ Routed("c1") /\ Routed("c2")
  /\ pc["c1"] = "response" /\ pc["c2"] = "response"
  /\ Matched(context["c1"]) /\ Matched(context["c2"])
  /\ context["c1"].operation # context["c2"].operation

\* C20: on an initialized instance a handleRequest call never runs init(),
\* and no step of a handleRequest call that dispatches, returns or raises
\* (for a missing not-found or not-implemented handler or otherwise) changes
\* the handler registry, the router, the validator or the initialized flag.
C20_RequestFrame ==
  [][\A p \in Callers :
       /\ pc[p] = "idle" /\ op'[p] = "handleRequest" /\ initalized
          => pc'[p] \in {"response", "done"}
       /\ Routes(p) \/ Responds(p)
          => UNCHANGED <<handlers, router, validator, initalized, definition, document>>]_vars

\* C20 witness: on an instance initialized once, with a handler for opA, a
\* handleRequest call has raised for want of a not-found handler.
C20_Witness ==
  /\ pc["c1"] = "finished"
  /\ pc["c2"] = "done" /\ op["c2"] = "handleRequest"
  /\ outcome["c2"].error = Error(<<"404-notFound: no route matches request">>)
  /\ initalized /\ router.instance = 1 /\ validator.instance = 1
  /\ handlers["opA"] = Fn("opA")

\* Caller p's init(), called by the user or by handleRequest, raises in
\* this step.
InitRaises(p) ==
  pc[p] \in {"parse", "dereference"} /\ pc'[p] = "done" /\ outcome'[p].status = "raised"

\* C21 (as claimed): whenever init() raises, for a contract error or for a
\* failure while registering the initial handlers, the instance is not
\* marked initialized afterwards.
C21_FailedInit ==
  [][\A p \in Callers : InitRaises(p) => ~initalized']_vars

====
